---- MODULE Spec2Model ----
(***************************************************************************)
(* Balanced-pair sampling for few-shot domain adaptation:                  *)
(* EvenSampler and DomainAdaptationPairDataset of datasets/classification. *)
(*                                                                         *)
(* Python lists and tensors are TLA+ sequences.  Python indices are        *)
(* 0-based and are kept 0-based as VALUES (sample indices, partition       *)
(* positions, flat indices); At(s, i) reads the element at Python index i. *)
(* An image path is modelled by the pair <<domain, original index>>.       *)
(***************************************************************************)
EXTENDS Integers, Sequences, FiniteSets, TLC

(***************************************************************************)
(* Bounds of the exploration.                                              *)
(***************************************************************************)
MaxPairFactor == 2
MaxShot == 2
MaxIters == 2
MaxSamples == 4
\* repeated passes of the G1 loop that are followed
MaxRetries == 2
\* files listed in one class directory
MaxFiles == 2
\* largest conf.k
MaxK == 3

(***************************************************************************)
(* Python list helpers.                                                    *)
(***************************************************************************)
None == "None"

At(s, i) == s[i + 1]

InRange(s, i) == i >= 0 /\ i < Len(s)

\* s[a:b] for 0 <= a, 0 <= b (Python clips the slice to the list)
Slice(s, a, b) ==
    LET hi == IF b < Len(s) THEN b ELSE Len(s)
    IN  IF a >= hi THEN << >> ELSE SubSeq(s, a + 1, hi)

\* [i for i in s]
ListOf(s) == SubSeq(s, 1, Len(s))

\* [i for i in range(n)]
Range0(n) == [k \in 1..n |-> k - 1]

Elems(s) == {s[k] : k \in 1..Len(s)}

RECURSIVE SumSeq(_)
SumSeq(s) == IF s = << >> THEN 0 ELSE Head(s) + SumSeq(Tail(s))

MinSeq(s) == CHOOSE x \in Elems(s) : \A y \in Elems(s) : x <= y

MaxSeq(s) == CHOOSE x \in Elems(s) : \A y \in Elems(s) : x >= y

\* math.comb(n, 2)
Comb2(n) == (n * (n - 1)) \div 2

\* members drawn independently, so that one may be drawn twice
ShuffledPrefixesWithRepeats(c, m) ==
    LET k == IF m < Len(c) THEN m ELSE Len(c)
    IN  [1..k -> Elems(c)]

\* c[torch.randperm(len(c))][0:m]: every ordered choice of min(m, len(c))
\* distinct members of c
ShuffledPrefixes(c, m) ==
    LET k == IF m < Len(c) THEN m ELSE Len(c)
    IN  {q \in [1..k -> Elems(c)] : \A a, b \in 1..k : a # b => q[a] # q[b]}

(***************************************************************************)
(* ClassificationDataset as seen by the samplers: labels and imgs of all   *)
(* indexed files, and the subset of original indices that is served.       *)
(***************************************************************************)
Dataset(dom, labs, sub) ==
    [labels |-> labs,
     imgs   |-> [k \in 1..Len(labs) |-> <<dom, k - 1>>],
     subset |-> sub]

WholeSet(dom, labs) == Dataset(dom, labs, Range0(Len(labs)))

(***************************************************************************)
(* EvenSampler.__init__                                                    *)
(***************************************************************************)
\* self.labels: the labels in subset order
SubsetLabels(dataset) ==
    [k \in 1..Len(dataset.subset) |-> At(dataset.labels, dataset.subset[k])]

\* torch.flatten((labels == c).nonzero()): ascending positions holding c
Nonzero(labels, c) ==
    SelectSeq(Range0(Len(labels)), LAMBDA i : At(labels, i) = c)

\* the bucket kept for class c: all of it, or its first shot members
ShotKeepSkipsFirst(all, shot) == IF shot # -1 THEN Slice(all, 1, shot + 1) ELSE all

ShotKeep(all, shot) == IF shot # -1 THEN Slice(all, 0, shot) ELSE all

\* the remainder of class c, recorded only when a shot is given
ShotRemain(all, shot) == Slice(all, shot, Len(all))

EvenSampler(dataset, shot) ==
    LET labels == SubsetLabels(dataset)
        num_classes == Cardinality(Elems(labels))
        class_idxs == [c \in 1..num_classes |-> ShotKeep(Nonzero(labels, c - 1), shot)]
        remain == IF shot # -1
                  THEN [c \in 1..num_classes |-> ShotRemain(Nonzero(labels, c - 1), shot)]
                  ELSE << >>
        lens == [c \in 1..num_classes |-> Len(class_idxs[c])]
    IN  [labels            |-> labels,
         shot              |-> shot,
         num_classes       |-> num_classes,
         class_idxs        |-> class_idxs,
         remain_class_idxs |-> remain,
         class_idx_lens    |-> lens,
         max_len           |-> MaxSeq(lens),
         min_len           |-> MinSeq(lens)]

(***************************************************************************)
(* EvenSampler.__iter__: every bucket is shuffled and cut to min_len (the  *)
(* sampler keeps the cut buckets), then the buckets are stacked along      *)
(* dim 1 and flattened.                                                    *)
(***************************************************************************)
\* every bucket cut one short of min_len
ShuffleCutOffByOne(sampler) ==
    LET K == sampler.num_classes
        all == UNION {ShuffledPrefixes(sampler.class_idxs[c], sampler.min_len - 1) : c \in 1..K}
    IN  {b \in [1..K -> all] :
            \A c \in 1..K : b[c] \in ShuffledPrefixes(sampler.class_idxs[c], sampler.min_len - 1)}

\* shuffled[0:self.min_len] of every bucket
ShuffleCut(sampler) ==
    LET K == sampler.num_classes
        all == UNION {ShuffledPrefixes(sampler.class_idxs[c], sampler.min_len) : c \in 1..K}
    IN  {b \in [1..K -> all] :
            \A c \in 1..K : b[c] \in ShuffledPrefixes(sampler.class_idxs[c], sampler.min_len)}

\* the buckets stacked along dim 0: class after class instead of interleaved
ZippedIdxsDim0(buckets, K) ==
    LET n == IF K = 0 THEN 0 ELSE Len(buckets[1])
    IN  [j \in 1..(K * n) |-> buckets[((j - 1) \div n) + 1][((j - 1) % n) + 1]]

\* torch.stack(buckets, dim=1).view(numel).tolist()
ZippedIdxs(buckets, K) ==
    LET n == IF K = 0 THEN 0 ELSE Len(buckets[1])
    IN  [j \in 1..(K * n) |-> buckets[((j - 1) % K) + 1][((j - 1) \div K) + 1]]

\* len(sampler)
SamplerLen(sampler) == Len(sampler.labels)


(***************************************************************************)
(* Directories as os.walk reports them: a directory has a name, its        *)
(* subdirectories and its files, both in listing order.  A path is the     *)
(* sequence of its components.                                             *)
(***************************************************************************)
Dir(name, dirs, files) == [name |-> name, dirs |-> dirs, files |-> files]

RECURSIVE Flatten(_)
Flatten(ss) == IF ss = << >> THEN << >> ELSE Head(ss) \o Flatten(Tail(ss))

\* os.path.join(dirpath, file)
Join(dirpath, file) == Append(dirpath, file)

\* os.path.dirname(path)
Dirname(path) == SubSeq(path, 1, Len(path) - 1)

\* os.path.basename(path)
Basename(path) == path[Len(path)]

\* os.walk(top), top down: (dirpath, dirnames, filenames) of top, then the
\* walk of every subdirectory in listing order
RECURSIVE Walk(_, _)
Walk(top, parent) ==
    LET dirpath == Join(parent, top.name)
    IN  <<[dirpath   |-> dirpath,
           dirnames  |-> [k \in 1..Len(top.dirs) |-> top.dirs[k].name],
           filenames |-> top.files]>>
        \o Flatten([k \in 1..Len(top.dirs) |-> Walk(top.dirs[k], dirpath)])

\* next(os.walk(img_dir_path))[1]
ImgClasses(img_dir_path) == Walk(img_dir_path, << >>)[1].dirnames

\* class ids counted from 1
ClassMapFromOne(img_classes) ==
    [n \in Elems(img_classes) |->
        CHOOSE k \in 1..Len(img_classes) :
            img_classes[k] = n /\ \A j \in (k + 1)..Len(img_classes) : img_classes[j] # n]

\* {img_classes[i] : i for i in range(0, len(img_classes))}
ClassMap(img_classes) ==
    [n \in Elems(img_classes) |->
        (CHOOSE k \in 1..Len(img_classes) :
            img_classes[k] = n /\ \A j \in (k + 1)..Len(img_classes) : img_classes[j] # n) - 1]

\* self.imgs: the files of every walked directory but the first, in walk order
ScanImgs(img_dir_path) ==
    LET walk == Walk(img_dir_path, << >>)
    IN  Flatten([k \in 1..(Len(walk) - 1) |->
                    [j \in 1..Len(walk[k + 1].filenames) |->
                        Join(walk[k + 1].dirpath, walk[k + 1].filenames[j])]])

\* the directory name some file is labelled by is not a class name
ScanKeyError(img_dir_path) ==
    \E k \in 1..Len(ScanImgs(img_dir_path)) :
        Basename(Dirname(ScanImgs(img_dir_path)[k]))
            \notin Elems(ImgClasses(img_dir_path))

\* the subset argument: None, or a list of original indices
NoSubset == << >>

Given(sub) == <<sub>>

\* ClassificationDataset(img_dir_path, transform, subset, get_path)
ClassificationDataset(img_dir_path, subset_given, get_path) ==
    LET classes == ClassMap(ImgClasses(img_dir_path))
        imgs == ScanImgs(img_dir_path)
    IN  [classes  |-> classes,
         imgs     |-> imgs,
         labels   |-> [k \in 1..Len(imgs) |-> classes[Basename(Dirname(imgs[k]))]],
         subset   |-> IF subset_given = NoSubset THEN Range0(Len(imgs)) ELSE subset_given[1],
         get_path |-> get_path]

\* len(dataset)
CdLength(dataset) == Len(dataset.subset)

\* the whole-set index read without going through the subset
CdGetItemUnmapped(dataset, i) ==
    IF ~InRange(dataset.subset, i) \/ ~InRange(dataset.imgs, i)
    THEN [kind |-> "IndexError", arg |-> i, img |-> None, label |-> None, path |-> None]
    ELSE [kind  |-> "sample",
          arg   |-> i,
          img   |-> At(dataset.imgs, i),
          label |-> At(dataset.labels, i),
          path  |-> IF dataset.get_path THEN At(dataset.imgs, i) ELSE None]

\* dataset[i]: the image (named by the file it is opened from), the label and,
\* with get_path, the path of record subset[i]
CdGetItem(dataset, i) ==
    IF ~InRange(dataset.subset, i) \/ ~InRange(dataset.imgs, At(dataset.subset, i))
    THEN [kind |-> "IndexError", arg |-> i, img |-> None, label |-> None, path |-> None]
    ELSE LET idx == At(dataset.subset, i)
         IN  [kind  |-> "sample",
              arg   |-> i,
              img   |-> At(dataset.imgs, idx),
              label |-> At(dataset.labels, idx),
              path  |-> IF dataset.get_path THEN At(dataset.imgs, idx) ELSE None]


(***************************************************************************)
(* State.  The fields of one DomainAdaptationPairDataset under             *)
(* construction and in service (named as in the source), and one           *)
(* EvenSampler that is iterated directly (the es variables).               *)
(***************************************************************************)
VARIABLES
    pc,                 \* position in DomainAdaptationPairDataset.__init__
    shot, adv_stage, pair_factor,
    source_img_dir_path, target_img_dir_path,
    source_dataset, target_dataset,
    s_sampler, t_sampler,
    num_G1_pairs, num_G2_pairs, num_G3_pairs, num_G4_pairs,
    min_pairs, min_pairs_multiple,
    G1_img_paths, G1_labels, G2_img_paths, G2_labels,
    G3_img_paths, G3_labels, G4_img_paths, G4_labels,
    G1_attempts,        \* passes of the G1 while loop made so far
    s_sampler_idxs, t_sampler_idxs, num_s_partitions, num_t_partitions,
    pair_cnt,
    subset_arg, group_imgs, group_labels, subset,
    ret,                \* what the last dataset[i] of the pair dataset gave
    es_pc, es_dataset, es_shot, es, es_out, es_iters,
    cd_pc,              \* position of a ClassificationDataset used directly
    cd_args,            \* its constructor arguments
    cd,                 \* the dataset object
    cd_ret,             \* what the last dataset[i] gave
    pg_pc,              \* position in pairs_get_datasets / pairs_get_datasets_c
    pg_fn,              \* which of the two functions is running
    conf,               \* its conf argument
    pg_constructed,     \* the datasets constructed so far, in order
    pg_indices, pg_sampler, pg_idxs,
    pg_train, pg_val    \* what train_dataset and val_dataset name, followed on
                        \* the constrained branch

cfg_vars == <<shot, adv_stage, pair_factor, source_img_dir_path, target_img_dir_path,
              source_dataset, target_dataset, subset_arg>>

sampler_vars == <<s_sampler, t_sampler>>

cap_vars == <<num_G1_pairs, num_G2_pairs, num_G3_pairs, num_G4_pairs,
              min_pairs, min_pairs_multiple>>

G_vars == <<G1_img_paths, G1_labels, G2_img_paths, G2_labels,
            G3_img_paths, G3_labels, G4_img_paths, G4_labels, G1_attempts>>

idx_vars == <<s_sampler_idxs, t_sampler_idxs, num_s_partitions, num_t_partitions>>

view_vars == <<group_imgs, group_labels, subset>>

es_vars == <<es_pc, es_dataset, es_shot, es, es_out, es_iters>>

cd_vars == <<cd_pc, cd_args, cd, cd_ret>>

pg_vars == <<pg_pc, pg_fn, conf, pg_constructed, pg_indices, pg_sampler, pg_idxs,
             pg_train, pg_val>>

vars == <<pc, cfg_vars, sampler_vars, cap_vars, G_vars, idx_vars, pair_cnt,
          view_vars, ret, es_vars, cd_vars, pg_vars>>

(***************************************************************************)
(* Inputs.                                                                 *)
(***************************************************************************)
\* shot: -1 (no cap) or a per-class cap
Shots == {-1} \cup 0..MaxShot

PairFactors == 1..MaxPairFactor

\* source domains: directory scans, a scan served through a subset (a train
\* split), and a subset that leaves class 1 of a 3-class index empty
SourceScan31 == WholeSet("S", <<0, 0, 0, 1>>)

SourceScan21 == WholeSet("S", <<0, 0, 1>>)

SourceSplit == Dataset("S", <<0, 1, 0, 1>>, <<3, 0, 2>>)

SourceGap == Dataset("S", <<0, 1, 2, 0>>, <<3, 2, 0>>)

\* target domains: as above, and a target that holds one class only
TargetScan11 == WholeSet("T", <<0, 1>>)

TargetScan22 == WholeSet("T", <<0, 0, 1, 1>>)

TargetSplit == Dataset("T", <<1, 0, 1, 0>>, <<2, 1, 0>>)

TargetOneClass == WholeSet("T", <<0>>)

\* the (source, target, shot) a dataset is built from
Calls ==
    ({SourceScan21, SourceSplit, SourceGap}
        \X {TargetScan11, TargetScan22, TargetSplit, TargetOneClass}
        \X Shots)
    \cup {<<SourceScan31, TargetScan11, -1>>}

FileNames == <<"a.png", "b.png", "c.png", "d.png">>

\* the argument None where a directory path is expected
NoPath == Dir("None", << >>, << >>)

\* a root directory of class directories that hold files.png[k] files each
PathTree(name, img_classes, files) ==
    Dir(name,
        [k \in 1..Len(img_classes) |-> Dir(img_classes[k], << >>, SubSeq(FileNames, 1, files[k]))],
        << >>)

\* a class directory with one file and a nested directory that holds one
NestedTree(name) ==
    Dir(name, <<Dir("cat", <<Dir("sub", << >>, <<"n.png">>)>>, <<"a.png">>)>>, << >>)

\* the (source path, target path, shot) a dataset is built from: the same
\* classes in the same listing order, the same classes listed in another
\* order, other classes, and a nested directory
PathCalls ==
    ({PathTree("S", <<"cat", "dog">>, <<2, 1>>)}
        \X {PathTree("T", <<"cat", "dog">>, <<1, 1>>),
            PathTree("T", <<"dog", "cat">>, <<1, 1>>),
            PathTree("T", <<"cat">>, <<2>>),
            PathTree("T", <<"cat", "cow">>, <<1, 1>>)}
        \X {-1, 1})
    \cup {<<NestedTree("S"), NestedTree("T"), -1>>}

EsLabelValues == {0, 1, 2}

\* datasets an EvenSampler is built over directly: every label list of up
\* to MaxSamples samples, whole or through a reversed subset, and a scan of
\* two classes of unequal size that yields two blocks, and a subset of a
\* three-class index that leaves class 1 without a sample
EsDatasets ==
    LET lists == UNION {[1..n -> EsLabelValues] : n \in 1..MaxSamples}
    IN  {WholeSet("S", l) : l \in lists}
        \cup {Dataset("S", l, [k \in 1..Len(l) |-> Len(l) - k]) : l \in lists}
        \cup {WholeSet("S", <<0, 0, 0, 1, 1>>)}
        \cup {Dataset("S", <<0, 1, 2>>, <<0, 2>>)}


\* the subset argument: None (serve everything) or a caller's index list
SubsetArgs == {None, <<5, 0>>}

(***************************************************************************)
(* DomainAdaptationPairDataset.__init__: capacities and budget             *)
(***************************************************************************)
\* G1: same domain, same class
CapG1(s) == SumSeq([i \in 1..s.num_classes |-> Comb2(s.class_idx_lens[i])])

\* G2: different domain, same class
CapG2(s, t) ==
    SumSeq([i \in 1..t.num_classes |-> s.class_idx_lens[i] * t.class_idx_lens[i]])

\* G3: same domain, different class
CapG3(s) == Comb2(Len(s.labels))

\* the sum taken over every (source class, target class), the same class too
CapG4AllPairs(s, t) ==
    SumSeq([i \in 1..t.num_classes |->
        SumSeq([j \in 1..s.num_classes |-> s.class_idx_lens[j] * t.class_idx_lens[i]])])

\* G4: different domain, different class
CapG4(s, t) ==
    SumSeq([i \in 1..t.num_classes |->
        SumSeq([j \in 1..s.num_classes |->
            IF i # j THEN s.class_idx_lens[j] * t.class_idx_lens[i] ELSE 0])])

Min2(a, b) == IF a < b THEN a ELSE b

\* self.min_pairs after "//= pair_factor"
MinPairs(g1, g2, g3, g4, factor) == MinSeq(<<g1, g2, g3, g4>>) \div factor

\* the capacity itself, never cut down to the multiple of min_pairs
ClampPairsOff(cap, factor, mp) == cap

\* a group's number of pairs: its capacity or the multiple of min_pairs
ClampPairs(cap, factor, mp) == Min2(cap, factor * mp)

(***************************************************************************)
(* The four draw loops.  LoopBound is the counter each while loop tests.   *)
(***************************************************************************)
Groups == <<"G1", "G2", "G3", "G4">>

LoopBound(g) ==
    CASE g = 1 -> num_G1_pairs
      [] g = 2 -> num_G2_pairs
      [] g = 3 -> num_G3_pairs
      [] g = 4 -> num_G2_pairs

\* in the adversarial stage only the loops of the served groups are entered
EnterLoopOfServed(g) ==
    LET open == {h \in g..4 : 0 < LoopBound(h) /\ (adv_stage => h \in {2, 4})}
    IN  IF open = {} THEN "groups"
        ELSE Groups[CHOOSE h \in open : \A j \in open : h <= j]

\* the first loop from g on whose condition holds at pair_cnt = 0
RECURSIVE EnterLoop(_)
EnterLoop(g) ==
    IF g > 4 THEN "groups"
    ELSE IF 0 < LoopBound(g) THEN Groups[g]
    ELSE EnterLoop(g + 1)

\* control after the iteration of loop g that left the counter at cnt
AfterDraw(g, cnt) ==
    IF cnt < LoopBound(g) THEN <<Groups[g], cnt>>
    ELSE IF EnterLoop(g + 1) = "groups" THEN <<"groups", IF g = 4 THEN cnt ELSE 0>>
    ELSE <<EnterLoop(g + 1), 0>>

\* random.randint(0, n): empty when n < 0 (randint raises ValueError)
RandInt(n) == 0..n

\* two classes drawn independently, so that they may coincide
Sample2WithReplacement(n) == (0..(n - 1)) \X (0..(n - 1))

\* random.sample(range(n), 2): two distinct classes, in order
Sample2(n) == {cc \in (0..(n - 1)) \X (0..(n - 1)) : cc[1] # cc[2]}

\* sub[idxs[pos]] can be read and names an indexed image
CanRead(dataset, idxs, pos) ==
    /\ InRange(idxs, pos)
    /\ InRange(dataset.subset, At(idxs, pos))
    /\ InRange(dataset.imgs, At(dataset.subset, At(idxs, pos)))

\* the sampler's position used as the index, the subset not applied
SampleIdxNoSubset(dataset, idxs, pos) == At(idxs, pos)

\* sub[idxs[pos]]
SampleIdx(dataset, idxs, pos) == At(dataset.subset, At(idxs, pos))

ImgPair(d1, x1, d2, x2) == <<At(d1.imgs, x1), At(d2.imgs, x2)>>

LabelEntry(pair_label, d1, x1, d2, x2) ==
    <<pair_label, <<At(d1.labels, x1), At(d2.labels, x2)>>>>

\* partition position drawn for the target side of a G2 pair
G2TargetPos(r) == r * s_sampler.num_classes

\* partition position drawn for the target side of a G4 pair
G4TargetPos(r) == r * t_sampler.num_classes

\* partitions counted from 1 on the source side
SourcePosFromOne(r) == (r + 1) * s_sampler.num_classes

\* partition position drawn on the source side
SourcePos(r) == r * s_sampler.num_classes

G2PairLabelPlain == IF adv_stage THEN 1 ELSE 1

G2PairLabel == IF adv_stage THEN 0 ELSE 1

G4PairLabelAdv == IF adv_stage THEN 2 ELSE 2

G4PairLabel == IF adv_stage THEN 2 ELSE 3


(***************************************************************************)
(* Initial states.                                                         *)
(***************************************************************************)
EsIdle ==
    /\ es_pc = "off"
    /\ es_dataset = None
    /\ es_shot = -1
    /\ es = None
    /\ es_out = None
    /\ es_iters = 0

\* nothing has been read yet
NoRet == [kind |-> "none"]

CdIdle ==
    /\ cd_pc = "off"
    /\ cd_args = None
    /\ cd = None
    /\ cd_ret = NoRet

\* a name that is bound to no object yet, and a name bound to obj
Unbound == << >>

Bound(obj) == <<obj>>

PgIdle ==
    /\ pg_pc = "off"
    /\ pg_fn = None
    /\ conf = None
    /\ pg_constructed = << >>
    /\ pg_indices = << >>
    /\ pg_sampler = None
    /\ pg_idxs = << >>
    /\ pg_train = Unbound
    /\ pg_val = Unbound

\* no pair dataset is under construction
PairsIdle ==
    /\ pc = "off"
    /\ shot = -1
    /\ adv_stage = FALSE
    /\ source_img_dir_path = NoPath
    /\ target_img_dir_path = NoPath
    /\ source_dataset = None
    /\ target_dataset = None
    /\ subset_arg = None

Unbuilt ==
    /\ s_sampler = None
    /\ t_sampler = None
    /\ num_G1_pairs = 0
    /\ num_G2_pairs = 0
    /\ num_G3_pairs = 0
    /\ num_G4_pairs = 0
    /\ min_pairs = 0
    /\ min_pairs_multiple = 0
    /\ G1_img_paths = << >>
    /\ G1_labels = << >>
    /\ G2_img_paths = << >>
    /\ G2_labels = << >>
    /\ G3_img_paths = << >>
    /\ G3_labels = << >>
    /\ G4_img_paths = << >>
    /\ G4_labels = << >>
    /\ G1_attempts = 0
    /\ s_sampler_idxs = << >>
    /\ t_sampler_idxs = << >>
    /\ num_s_partitions = 0
    /\ num_t_partitions = 0
    /\ pair_cnt = 0
    /\ group_imgs = << >>
    /\ group_labels = << >>
    /\ subset = << >>
    /\ ret = NoRet

\* a call DomainAdaptationPairDataset(None, None, transform, shot, pair_factor,
\* adv_stage, source_dataset, target_dataset, subset), or a call
\* DomainAdaptationPairDataset(source_img_dir_path, target_img_dir_path,
\* transform, shot, pair_factor, adv_stage, subset=subset)
Init ==
    /\ pc = "new"
    /\ adv_stage \in BOOLEAN
    /\ pair_factor \in PairFactors
    /\ \/ \E call \in Calls :
             /\ source_dataset = call[1]
             /\ target_dataset = call[2]
             /\ shot = call[3]
             /\ source_img_dir_path = NoPath
             /\ target_img_dir_path = NoPath
       \/ \E call \in PathCalls :
             /\ source_img_dir_path = call[1]
             /\ target_img_dir_path = call[2]
             /\ shot = call[3]
             /\ source_dataset = None
             /\ target_dataset = None
    /\ subset_arg \in SubsetArgs
    /\ Unbuilt
    /\ EsIdle
    /\ CdIdle
    /\ PgIdle

(***************************************************************************)
(* DomainAdaptationPairDataset.__init__, statement by statement.           *)
(***************************************************************************)
\* "source_dataset != None and target_dataset != None": a caller passes the
\* two datasets, or else the two paths
DatasetsGiven == source_img_dir_path = NoPath /\ target_img_dir_path = NoPath

\* the class names compared as sets, whatever the listing order
ClassNameSetsEqual(source_img_classes, target_img_classes) ==
    Elems(source_img_classes) = Elems(target_img_classes)

\* source_img_classes == target_img_classes, on lists
ClassNamesEqual(source_img_classes, target_img_classes) ==
    source_img_classes = target_img_classes

\* a scanned dataset as the pair dataset uses it: every image path is
\* represented by its domain and its index
Indexed(dom, dataset) == Dataset(dom, dataset.labels, dataset.subset)

\* the else branch: the class lists of the two paths are compared, then the
\* two directories are scanned
OpenPaths ==
    /\ pc = "new"
    /\ ~DatasetsGiven
    /\ IF ~ClassNamesEqual(ImgClasses(source_img_dir_path), ImgClasses(target_img_dir_path))
       THEN /\ pc' = "AssertionError"
            /\ UNCHANGED <<source_dataset, target_dataset>>
       ELSE IF ScanKeyError(source_img_dir_path) \/ ScanKeyError(target_img_dir_path)
       THEN /\ pc' = "KeyError"
            /\ UNCHANGED <<source_dataset, target_dataset>>
       ELSE /\ source_dataset' =
                  Indexed("S", ClassificationDataset(source_img_dir_path, NoSubset, FALSE))
            /\ target_dataset' =
                  Indexed("T", ClassificationDataset(target_img_dir_path, NoSubset, FALSE))
            /\ pc' = "opened"
    /\ UNCHANGED <<shot, adv_stage, pair_factor, source_img_dir_path, target_img_dir_path,
                   subset_arg, sampler_vars, cap_vars, G_vars, idx_vars, pair_cnt,
                   view_vars, ret, es_vars, cd_vars, pg_vars>>

Samplers ==
    /\ pc = "opened" \/ (pc = "new" /\ DatasetsGiven)
    /\ s_sampler' = EvenSampler(source_dataset, -1)
    /\ t_sampler' = EvenSampler(target_dataset, shot)
    /\ pc' = "samplers"
    /\ UNCHANGED <<cfg_vars, cap_vars, G_vars, idx_vars, pair_cnt, view_vars, ret, es_vars, cd_vars, pg_vars>>

\* the capacity sums index the source lens by target class: IndexError when
\* the target sampler counts more classes than the source sampler
Capacities ==
    /\ pc = "samplers"
    /\ IF t_sampler.num_classes > s_sampler.num_classes
       THEN /\ pc' = "crashed"
            /\ UNCHANGED cap_vars
       ELSE /\ num_G1_pairs' = CapG1(s_sampler)
            /\ num_G2_pairs' = CapG2(s_sampler, t_sampler)
            /\ num_G3_pairs' = CapG3(s_sampler)
            /\ num_G4_pairs' = CapG4(s_sampler, t_sampler)
            /\ UNCHANGED <<min_pairs, min_pairs_multiple>>
            /\ pc' = "capacities"
    /\ UNCHANGED <<cfg_vars, sampler_vars, G_vars, idx_vars, pair_cnt, view_vars, ret, es_vars, cd_vars, pg_vars>>

Budget ==
    /\ pc = "capacities"
    /\ min_pairs_multiple' = pair_factor
    /\ min_pairs' = MinPairs(num_G1_pairs, num_G2_pairs, num_G3_pairs, num_G4_pairs,
                             pair_factor)
    /\ num_G1_pairs' = ClampPairs(num_G1_pairs, pair_factor, min_pairs')
    /\ num_G2_pairs' = ClampPairs(num_G2_pairs, pair_factor, min_pairs')
    /\ num_G3_pairs' = ClampPairs(num_G3_pairs, pair_factor, min_pairs')
    /\ num_G4_pairs' = ClampPairs(num_G4_pairs, pair_factor, min_pairs')
    /\ pc' = "budget"
    /\ UNCHANGED <<cfg_vars, sampler_vars, G_vars, idx_vars, pair_cnt, view_vars, ret, es_vars, cd_vars, pg_vars>>

\* self.s_sampler_idxs = [i for i in self.s_sampler]
IterSource ==
    /\ pc = "budget"
    /\ \E b \in ShuffleCut(s_sampler) :
          /\ s_sampler' = [s_sampler EXCEPT !.class_idxs = b]
          /\ s_sampler_idxs' = ZippedIdxs(b, s_sampler.num_classes)
    /\ pc' = "iter_s"
    /\ UNCHANGED <<cfg_vars, t_sampler, cap_vars, G_vars, t_sampler_idxs,
                   num_s_partitions, num_t_partitions, pair_cnt, view_vars, ret, es_vars, cd_vars, pg_vars>>

\* self.t_sampler_idxs = [i for i in self.t_sampler], the partition counts
\* (len / num_classes - 1 is a float with an integral value, since every
\* emitted list is num_classes * min_len long), and entry into the first
\* draw loop that has pairs to draw
IterTarget ==
    /\ pc = "iter_s"
    /\ \E b \in ShuffleCut(t_sampler) :
          /\ t_sampler' = [t_sampler EXCEPT !.class_idxs = b]
          /\ t_sampler_idxs' = ZippedIdxs(b, t_sampler.num_classes)
    /\ num_s_partitions' = (Len(s_sampler_idxs) \div s_sampler.num_classes) - 1
    /\ num_t_partitions' = (Len(t_sampler_idxs') \div t_sampler.num_classes) - 1
    /\ pc' = EnterLoop(1)
    /\ pair_cnt' = 0
    /\ UNCHANGED <<cfg_vars, s_sampler, cap_vars, G_vars, s_sampler_idxs, view_vars, ret, es_vars, cd_vars, pg_vars>>

Crash ==
    /\ pc' = "crashed"
    /\ UNCHANGED <<G_vars, pair_cnt>>

\* one pass of "while pair_cnt < self.num_G1_pairs": an IndexError is caught
\* and the pass is repeated, any other error leaves the constructor
DrawG1 ==
    /\ pc = "G1"
    /\ pair_cnt < num_G1_pairs
    /\ IF RandInt(num_s_partitions) = {}
       THEN Crash
       ELSE \E r1, r2 \in RandInt(num_s_partitions), c \in RandInt(s_sampler.num_classes - 1) :
              LET p1 == SourcePos(r1)
                  p2 == SourcePos(r2)
              IN  IF CanRead(source_dataset, s_sampler_idxs, p1 + c)
                     /\ CanRead(source_dataset, s_sampler_idxs, p2 + c)
                  THEN LET x1_idx == SampleIdx(source_dataset, s_sampler_idxs, p1 + c)
                           x2_idx == SampleIdx(source_dataset, s_sampler_idxs, p2 + c)
                       IN  /\ G1_img_paths' = Append(G1_img_paths,
                                  ImgPair(source_dataset, x1_idx, source_dataset, x2_idx))
                           /\ G1_labels' = Append(G1_labels,
                                  LabelEntry(0, source_dataset, x1_idx, source_dataset, x2_idx))
                           /\ pc' = AfterDraw(1, pair_cnt + 1)[1]
                           /\ pair_cnt' = AfterDraw(1, pair_cnt + 1)[2]
                           /\ G1_attempts' = G1_attempts + 1
                           /\ UNCHANGED <<G2_img_paths, G2_labels, G3_img_paths, G3_labels,
                                          G4_img_paths, G4_labels>>
                  ELSE /\ G1_attempts < num_G1_pairs + MaxRetries
                       /\ G1_attempts' = G1_attempts + 1
                       /\ UNCHANGED <<pc, pair_cnt, G1_img_paths, G1_labels, G2_img_paths,
                                      G2_labels, G3_img_paths, G3_labels, G4_img_paths,
                                      G4_labels>>
    /\ UNCHANGED <<cfg_vars, sampler_vars, cap_vars, idx_vars, view_vars, ret, es_vars, cd_vars, pg_vars>>

DrawG2 ==
    /\ pc = "G2"
    /\ pair_cnt < num_G2_pairs
    /\ IF RandInt(num_s_partitions) = {} \/ RandInt(num_t_partitions) = {}
       THEN Crash
       ELSE \E r1 \in RandInt(num_s_partitions), r2 \in RandInt(num_t_partitions),
               c \in RandInt(s_sampler.num_classes - 1) :
              LET p1 == SourcePos(r1)
                  p2 == G2TargetPos(r2)
              IN  IF CanRead(source_dataset, s_sampler_idxs, p1 + c)
                     /\ CanRead(target_dataset, t_sampler_idxs, p2 + c)
                  THEN LET x1_idx == SampleIdx(source_dataset, s_sampler_idxs, p1 + c)
                           x2_idx == SampleIdx(target_dataset, t_sampler_idxs, p2 + c)
                       IN  /\ G2_img_paths' = Append(G2_img_paths,
                                  ImgPair(source_dataset, x1_idx, target_dataset, x2_idx))
                           /\ G2_labels' = Append(G2_labels,
                                  LabelEntry(G2PairLabel, source_dataset, x1_idx,
                                             target_dataset, x2_idx))
                           /\ pc' = AfterDraw(2, pair_cnt + 1)[1]
                           /\ pair_cnt' = AfterDraw(2, pair_cnt + 1)[2]
                           /\ UNCHANGED <<G1_img_paths, G1_labels, G3_img_paths, G3_labels,
                                          G4_img_paths, G4_labels, G1_attempts>>
                  ELSE Crash
    /\ UNCHANGED <<cfg_vars, sampler_vars, cap_vars, idx_vars, view_vars, ret, es_vars, cd_vars, pg_vars>>

DrawG3 ==
    /\ pc = "G3"
    /\ pair_cnt < num_G3_pairs
    /\ IF RandInt(num_s_partitions) = {} \/ Sample2(s_sampler.num_classes) = {}
       THEN Crash
       ELSE \E r1, r2 \in RandInt(num_s_partitions), cc \in Sample2(s_sampler.num_classes) :
              LET p1 == SourcePos(r1)
                  p2 == SourcePos(r2)
                  c1 == cc[1]
                  c2 == cc[2]
              IN  IF CanRead(source_dataset, s_sampler_idxs, p1 + c1)
                     /\ CanRead(source_dataset, s_sampler_idxs, p2 + c2)
                  THEN LET x1_idx == SampleIdx(source_dataset, s_sampler_idxs, p1 + c1)
                           x2_idx == SampleIdx(source_dataset, s_sampler_idxs, p2 + c2)
                       IN  /\ G3_img_paths' = Append(G3_img_paths,
                                  ImgPair(source_dataset, x1_idx, source_dataset, x2_idx))
                           /\ G3_labels' = Append(G3_labels,
                                  LabelEntry(2, source_dataset, x1_idx, source_dataset, x2_idx))
                           /\ pc' = AfterDraw(3, pair_cnt + 1)[1]
                           /\ pair_cnt' = AfterDraw(3, pair_cnt + 1)[2]
                           /\ UNCHANGED <<G1_img_paths, G1_labels, G2_img_paths, G2_labels,
                                          G4_img_paths, G4_labels, G1_attempts>>
                  ELSE Crash
    /\ UNCHANGED <<cfg_vars, sampler_vars, cap_vars, idx_vars, view_vars, ret, es_vars, cd_vars, pg_vars>>

\* the G4 loop tests self.num_G2_pairs
DrawG4 ==
    /\ pc = "G4"
    /\ pair_cnt < LoopBound(4)
    /\ IF RandInt(num_s_partitions) = {} \/ RandInt(num_t_partitions) = {}
          \/ Sample2(s_sampler.num_classes) = {}
       THEN Crash
       ELSE \E r1 \in RandInt(num_s_partitions), r2 \in RandInt(num_t_partitions),
               cc \in Sample2(s_sampler.num_classes) :
              LET p1 == SourcePos(r1)
                  p2 == G4TargetPos(r2)
                  c1 == cc[1]
                  c2 == cc[2]
              IN  IF CanRead(source_dataset, s_sampler_idxs, p1 + c1)
                     /\ CanRead(target_dataset, t_sampler_idxs, p2 + c2)
                  THEN LET x1_idx == SampleIdx(source_dataset, s_sampler_idxs, p1 + c1)
                           x2_idx == SampleIdx(target_dataset, t_sampler_idxs, p2 + c2)
                       IN  /\ G4_img_paths' = Append(G4_img_paths,
                                  ImgPair(source_dataset, x1_idx, target_dataset, x2_idx))
                           /\ G4_labels' = Append(G4_labels,
                                  LabelEntry(G4PairLabel, source_dataset, x1_idx,
                                             target_dataset, x2_idx))
                           /\ pc' = AfterDraw(4, pair_cnt + 1)[1]
                           /\ pair_cnt' = AfterDraw(4, pair_cnt + 1)[2]
                           /\ UNCHANGED <<G1_img_paths, G1_labels, G2_img_paths, G2_labels,
                                          G3_img_paths, G3_labels, G1_attempts>>
                  ELSE Crash
    /\ UNCHANGED <<cfg_vars, sampler_vars, cap_vars, idx_vars, view_vars, ret, es_vars, cd_vars, pg_vars>>

\* the groups that are served, and the subset of flat indices
ServedGroups == IF adv_stage THEN 2 ELSE 4

DefaultSubset == Range0(ServedGroups * min_pairs)

Finish ==
    /\ pc = "groups"
    /\ group_imgs' = IF adv_stage
                     THEN <<G2_img_paths, G4_img_paths>>
                     ELSE <<G1_img_paths, G2_img_paths, G3_img_paths, G4_img_paths>>
    /\ group_labels' = IF adv_stage
                       THEN <<G2_labels, G4_labels>>
                       ELSE <<G1_labels, G2_labels, G3_labels, G4_labels>>
    /\ subset' = IF subset_arg = None THEN DefaultSubset ELSE subset_arg
    /\ pc' = "ready"
    /\ UNCHANGED <<cfg_vars, sampler_vars, cap_vars, G_vars, idx_vars, pair_cnt, ret,
                   es_vars, cd_vars, pg_vars>>

(***************************************************************************)
(* __len__ and __getitem__ (the image loading and the transform left out). *)
(* The reads are followed in SpecServe.                                    *)
(***************************************************************************)
Length == Len(subset)

\* the group a subset entry falls in, clamped to the last served group
GetGroup(idx) ==
    LET group == idx \div min_pairs
    IN  IF group > ServedGroups - 1 THEN ServedGroups - 1 ELSE group

GetSubIdxByGroups(idx) == idx % ServedGroups

GetSubIdx(idx) == idx % min_pairs

GetItem(i) ==
    LET idx == At(subset, i)
    IN  IF min_pairs = 0 THEN [kind |-> "ZeroDivisionError"]
        ELSE LET group == GetGroup(idx)
                 sub_idx == GetSubIdx(idx)
             IN  IF ~InRange(group_imgs[group + 1], sub_idx)
                 THEN [kind |-> "exit", group |-> group, sub_idx |-> sub_idx]
                 ELSE LET paths == At(group_imgs[group + 1], sub_idx)
                          label == At(group_labels[group + 1], sub_idx)
                      IN  [kind       |-> "sample",
                           group      |-> group,
                           sub_idx    |-> sub_idx,
                           img1       |-> paths[1],
                           img2       |-> paths[2],
                           pair_label |-> label[1],
                           label_a    |-> label[2][1],
                           label_b    |-> label[2][2]]

\* the offset drawn at random among the served ones, whatever the index
GetRandomOffset ==
    /\ pc = "ready"
    /\ min_pairs > 0
    /\ \E i \in 0..(Length - 1), o \in 0..(min_pairs - 1) :
          LET group == GetGroup(At(subset, i))
          IN  /\ InRange(group_imgs[group + 1], o)
              /\ ret' = [kind |-> "item", arg |-> i,
                         item |-> [kind       |-> "sample",
                                   group      |-> group,
                                   sub_idx    |-> o,
                                   img1       |-> At(group_imgs[group + 1], o)[1],
                                   img2       |-> At(group_imgs[group + 1], o)[2],
                                   pair_label |-> At(group_labels[group + 1], o)[1],
                                   label_a    |-> At(group_labels[group + 1], o)[2][1],
                                   label_b    |-> At(group_labels[group + 1], o)[2][2]]]
    /\ UNCHANGED <<pc, cfg_vars, sampler_vars, cap_vars, G_vars, idx_vars, pair_cnt,
                   view_vars, es_vars, cd_vars, pg_vars>>

\* a call dataset[i] for an index a loader asks for: it reads the dataset and
\* assigns none of its fields; a pair that cannot be read ends the process
\* (exit()), a zero min_pairs raises ZeroDivisionError to the caller
Get ==
    /\ pc = "ready"
    /\ \E i \in 0..(Length - 1) :
          /\ ret' = [kind |-> "item", arg |-> i, item |-> GetItem(i)]
          /\ pc' = IF GetItem(i).kind = "exit" THEN "exited" ELSE pc
    /\ UNCHANGED <<cfg_vars, sampler_vars, cap_vars, G_vars, idx_vars, pair_cnt,
                   view_vars, es_vars, cd_vars, pg_vars>>

Next ==
    \/ OpenPaths
    \/ Samplers
    \/ Capacities
    \/ Budget
    \/ IterSource
    \/ IterTarget
    \/ DrawG1
    \/ DrawG2
    \/ DrawG3
    \/ DrawG4
    \/ Finish

Spec == Init /\ [][Next]_vars


(***************************************************************************)
(* A DomainAdaptationPairDataset in service: constructed, then read index  *)
(* by index, again and again.                                              *)
(***************************************************************************)
\* the (source, target, shot, pair_factor, adv_stage, subset) of the
\* datasets that are read: small ones in every mode, and one of three pairs
\* per group
ServeCalls ==
    ({SourceScan21, SourceSplit} \X {TargetScan11, TargetSplit} \X {-1, 1}
        \X PairFactors \X BOOLEAN \X SubsetArgs)
    \cup {<<SourceScan31, TargetScan11, -1, 1, TRUE, None>>}

ServePathCall ==
    <<PathTree("S", <<"cat", "dog">>, <<2, 1>>), PathTree("T", <<"cat", "dog">>, <<1, 1>>)>>

InitServe ==
    /\ pc = "new"
    /\ \/ \E call \in ServeCalls :
             /\ source_dataset = call[1]
             /\ target_dataset = call[2]
             /\ shot = call[3]
             /\ pair_factor = call[4]
             /\ adv_stage = call[5]
             /\ subset_arg = call[6]
             /\ source_img_dir_path = NoPath
             /\ target_img_dir_path = NoPath
       \/ /\ source_img_dir_path = ServePathCall[1]
          /\ target_img_dir_path = ServePathCall[2]
          /\ shot = -1
          /\ pair_factor = 1
          /\ adv_stage = FALSE
          /\ subset_arg = None
          /\ source_dataset = None
          /\ target_dataset = None
    /\ Unbuilt
    /\ EsIdle
    /\ CdIdle
    /\ PgIdle

NextServe ==
    \/ Next
    \/ Get

SpecServe == InitServe /\ [][NextServe]_vars


(***************************************************************************)
(* An EvenSampler used directly: built once, iterated again and again.     *)
(***************************************************************************)
InitSampler ==
    /\ PairsIdle
    /\ pair_factor = 1
    /\ Unbuilt
    /\ CdIdle
    /\ PgIdle
    /\ es_pc = "new"
    /\ es_dataset \in EsDatasets
    /\ es_shot \in Shots
    /\ es = None
    /\ es_out = None
    /\ es_iters = 0

\* sampler = EvenSampler(dataset, shot)
EsConstruct ==
    /\ es_pc = "new"
    /\ es' = EvenSampler(es_dataset, es_shot)
    /\ es_pc' = "built"
    /\ UNCHANGED <<pc, cfg_vars, sampler_vars, cap_vars, G_vars, idx_vars, pair_cnt,
                   view_vars, ret, es_dataset, es_shot, es_out, es_iters, cd_vars, pg_vars>>

\* idxs = [i for i in sampler]
EsIterate ==
    /\ es_pc = "built"
    /\ es_iters < MaxIters
    /\ \E b \in ShuffleCut(es) :
          /\ es' = [es EXCEPT !.class_idxs = b]
          /\ es_out' = ZippedIdxs(b, es.num_classes)
    /\ es_iters' = es_iters + 1
    /\ UNCHANGED <<pc, cfg_vars, sampler_vars, cap_vars, G_vars, idx_vars, pair_cnt,
                   view_vars, ret, es_pc, es_dataset, es_shot, cd_vars, pg_vars>>

NextSampler ==
    \/ EsConstruct
    \/ EsIterate

SpecSampler == InitSampler /\ [][NextSampler]_vars


(***************************************************************************)
(* A ClassificationDataset used directly: built from a directory, then     *)
(* read.                                                                   *)
(***************************************************************************)
ClassNames == {"cat", "dog"}

\* a directory inside a class directory: named like a class, or not
NestedNames == {"dog", "sub"}

\* the file listings of a class directory
FileLists == {SubSeq(FileNames, 1, n) : n \in 0..MaxFiles}

\* class directories: some files, and possibly one nested directory that
\* holds one file
ClassDirs(name) ==
    {Dir(name, nested, files) :
        nested \in {<< >>} \cup {<<Dir(n, << >>, <<"n.png">>)>> : n \in NestedNames},
        files \in FileLists}

\* root directories: no, one or two class directories in either listing
\* order, and possibly a file next to them
Roots(name) ==
    LET one == UNION {ClassDirs(c) : c \in ClassNames}
        lists == {<< >>} \cup {<<d>> : d \in one}
                 \cup {dd \in one \X one : dd[1].name # dd[2].name}
    IN  {Dir(name, dirs, files) : dirs \in lists, files \in {<< >>, <<"top.txt">>}}

CdSubsets == {NoSubset, Given(<<1, 0>>), Given(<<2>>)}

InitScan ==
    /\ PairsIdle
    /\ pair_factor = 1
    /\ Unbuilt
    /\ EsIdle
    /\ PgIdle
    /\ cd_pc = "new"
    /\ cd_args \in [img_dir_path : Roots("S"), subset : CdSubsets, get_path : BOOLEAN]
    /\ cd = None
    /\ cd_ret = NoRet

\* dataset = ClassificationDataset(img_dir_path, transform, subset, get_path)
CdConstruct ==
    /\ cd_pc = "new"
    /\ IF ScanKeyError(cd_args.img_dir_path)
       THEN /\ cd_pc' = "KeyError"
            /\ UNCHANGED cd
       ELSE /\ cd_pc' = "built"
            /\ cd' = ClassificationDataset(cd_args.img_dir_path, cd_args.subset,
                                           cd_args.get_path)
    /\ UNCHANGED <<pc, cfg_vars, sampler_vars, cap_vars, G_vars, idx_vars, pair_cnt,
                   view_vars, ret, es_vars, cd_args, cd_ret, pg_vars>>

\* dataset[i], for the indices a loader asks for and the first one past them
CdGet ==
    /\ cd_pc = "built"
    /\ \E i \in 0..CdLength(cd) : cd_ret' = CdGetItem(cd, i)
    /\ UNCHANGED <<pc, cfg_vars, sampler_vars, cap_vars, G_vars, idx_vars, pair_cnt,
                   view_vars, ret, es_vars, cd_pc, cd_args, cd, pg_vars>>

NextScan ==
    \/ CdConstruct
    \/ CdGet

SpecScan == InitScan /\ [][NextScan]_vars


(***************************************************************************)
(* pairs_get_datasets and pairs_get_datasets_c.  Every dataset the         *)
(* function constructs is recorded, in order, with the arguments it is     *)
(* constructed from; what a DomainAdaptationPairDataset does with them is  *)
(* the constructor modelled above.                                         *)
(***************************************************************************)
\* data_dir[0]/train and data_dir[1]/train
PgSourceDir == PathTree("S", <<"cat", "dog">>, <<2, 1>>)

PgTargetDir == PathTree("T", <<"cat", "dog">>, <<4, 3>>)

\* a target of one image per class
PgSmallTargetDir == PathTree("T", <<"cat", "dog">>, <<1, 1>>)

\* conf.validation_split, in hundredths
ValidationSplits == {25, 50}

\* the runs followed: every k without constrained_validation, k up to 1
\* with it
Confs ==
    {c \in [k : 0..MaxK, constrained_validation : BOOLEAN,
            validation_split : ValidationSplits] :
        c.constrained_validation => c.k <= 1}

\* torch.randperm(n)
Randperm(n) == {q \in [1..n -> 0..(n - 1)] : \A a, b \in 1..n : a # b => q[a] # q[b]}

PgAdv == pg_fn = "pairs_get_datasets_c"

\* the target directory of the run: the one-image target in the constrained
\* runs, the three-image target in the others
PgTarget == IF conf.constrained_validation THEN PgSmallTargetDir ELSE PgTargetDir

\* a constructed DomainAdaptationPairDataset, by its arguments
PairsDataset(source, target, k, sub, adv) ==
    [cls |-> "DomainAdaptationPairDataset", source |-> source, target |-> target,
     shot |-> k, subset |-> sub, adv_stage |-> adv]

\* a constructed ClassificationDataset(img_dir_path, transform, subset, True)
ClassDataset(img_dir_path, sub) ==
    [cls |-> "ClassificationDataset",
     dataset |-> ClassificationDataset(img_dir_path, sub, TRUE)]

\* int(len(train_dataset) * conf.validation_split)
ValSize(len, split) == (len * split) \div 100

\* the assertion passes only above three
KAboveThree(k) == k > 3

\* conf.k >= 3
KAtLeastThree(k) == k >= 3

InitPairsGet ==
    /\ PairsIdle
    /\ pair_factor \in PairFactors
    /\ Unbuilt
    /\ EsIdle
    /\ CdIdle
    /\ pg_pc = "start"
    /\ pg_fn \in {"pairs_get_datasets", "pairs_get_datasets_c"}
    /\ conf \in Confs
    /\ pg_constructed = << >>
    /\ pg_indices = << >>
    /\ pg_sampler = None
    /\ pg_idxs = << >>
    /\ pg_train = Unbound
    /\ pg_val = Unbound

\* the call DomainAdaptationPairDataset(source path, target path, transform,
\* shot=k, pair_factor=pair_factor, adv_stage, subset=sub) is entered
PgCall(source, target, k, sub) ==
    /\ pc' = "new"
    /\ shot' = k
    /\ adv_stage' = PgAdv
    /\ source_img_dir_path' = source
    /\ target_img_dir_path' = target
    /\ source_dataset' = None
    /\ target_dataset' = None
    /\ subset_arg' = sub
    /\ s_sampler' = None
    /\ t_sampler' = None
    /\ num_G1_pairs' = 0
    /\ num_G2_pairs' = 0
    /\ num_G3_pairs' = 0
    /\ num_G4_pairs' = 0
    /\ min_pairs' = 0
    /\ min_pairs_multiple' = 0
    /\ G1_img_paths' = << >>
    /\ G1_labels' = << >>
    /\ G2_img_paths' = << >>
    /\ G2_labels' = << >>
    /\ G3_img_paths' = << >>
    /\ G3_labels' = << >>
    /\ G4_img_paths' = << >>
    /\ G4_labels' = << >>
    /\ G1_attempts' = 0
    /\ s_sampler_idxs' = << >>
    /\ t_sampler_idxs' = << >>
    /\ num_s_partitions' = 0
    /\ num_t_partitions' = 0
    /\ pair_cnt' = 0
    /\ group_imgs' = << >>
    /\ group_labels' = << >>
    /\ subset' = << >>
    /\ ret' = NoRet
    /\ UNCHANGED pair_factor

\* the pair dataset object a finished call gives
PairsObject ==
    [group_imgs |-> group_imgs, group_labels |-> group_labels,
     subset |-> subset, min_pairs |-> min_pairs, adv_stage |-> adv_stage]

\* train_dataset = DomainAdaptationPairDataset(source path, target path, ...,
\* shot=conf.k, pair_factor=pair_factor), ahead of the branch.  On the
\* constrained branch the construction is followed step by step; the other
\* branch never reads this dataset, and it is recorded by its arguments
PgTrainPairs ==
    /\ pg_pc = "start"
    /\ pg_constructed' = <<PairsDataset(PgSourceDir, PgTarget, conf.k, None, PgAdv)>>
    /\ IF conf.constrained_validation
       THEN /\ PgCall(PgSourceDir, PgTarget, conf.k, None)
            /\ pg_pc' = "train_dataset"
       ELSE /\ pg_pc' = "assert"
            /\ UNCHANGED <<pc, cfg_vars, sampler_vars, cap_vars, G_vars, idx_vars,
                           pair_cnt, view_vars, ret>>
    /\ UNCHANGED <<es_vars, cd_vars, pg_fn, conf, pg_indices, pg_sampler, pg_idxs,
                   pg_train, pg_val>>

\* the constrained branch: train_dataset is bound, its flat indices are
\* split at random, and the pair dataset is constructed again over
\* indices[val_size:]
PgConstrainedTrain ==
    /\ pg_pc = "train_dataset"
    /\ pc = "ready"
    /\ pg_train' = Bound(PairsObject)
    /\ LET len == Length
           val_size == ValSize(len, conf.validation_split)
       IN  \E indices \in Randperm(len) :
              /\ pg_indices' = indices
              /\ pg_constructed' = Append(pg_constructed,
                    PairsDataset(PgSourceDir, PgTarget, conf.k,
                                 Slice(indices, val_size, len), PgAdv))
              /\ PgCall(PgSourceDir, PgTarget, conf.k, Slice(indices, val_size, len))
    /\ pg_pc' = "train_subset"
    /\ UNCHANGED <<es_vars, cd_vars, pg_fn, conf, pg_sampler, pg_idxs, pg_val>>

\* train_dataset is bound to the second dataset, and the pair dataset is
\* constructed a third time, over indices[:val_size]
PgConstrainedVal ==
    /\ pg_pc = "train_subset"
    /\ pc = "ready"
    /\ pg_train' = Bound(PairsObject)
    /\ LET val_size == ValSize(Len(pg_indices), conf.validation_split)
       IN  /\ pg_constructed' = Append(pg_constructed,
                 PairsDataset(PgSourceDir, PgTarget, conf.k,
                              Slice(pg_indices, 0, val_size), PgAdv))
           /\ PgCall(PgSourceDir, PgTarget, conf.k, Slice(pg_indices, 0, val_size))
    /\ pg_pc' = "val_subset"
    /\ UNCHANGED <<es_vars, cd_vars, pg_fn, conf, pg_indices, pg_sampler, pg_idxs, pg_val>>

\* val_dataset is bound to the third dataset, and the two are returned
PgConstrainedReturn ==
    /\ pg_pc = "val_subset"
    /\ pc = "ready"
    /\ pg_val' = Bound(PairsObject)
    /\ pg_pc' = "returned"
    /\ UNCHANGED <<pc, cfg_vars, sampler_vars, cap_vars, G_vars, idx_vars, pair_cnt,
                   view_vars, ret, es_vars, cd_vars, pg_fn, conf, pg_constructed, pg_indices,
                   pg_sampler, pg_idxs, pg_train>>

\* assert conf.k >= 3, the first statement of the else branch
PgAssert ==
    /\ pg_pc = "assert"
    /\ pg_pc' = IF KAtLeastThree(conf.k) THEN "source" ELSE "AssertionError"
    /\ UNCHANGED <<pc, cfg_vars, sampler_vars, cap_vars, G_vars, idx_vars, pair_cnt,
                   view_vars, ret, es_vars, cd_vars, pg_fn, conf, pg_constructed, pg_indices,
                   pg_sampler, pg_idxs, pg_train, pg_val>>

\* the source directory scanned, split at random into two thirds and one
\* third, and scanned again for each part
PgSourceSplit ==
    /\ pg_pc = "source"
    /\ LET whole == ClassDataset(PgSourceDir, NoSubset)
           len == CdLength(whole.dataset)
           val_size == len \div 3
       IN  \E indices \in Randperm(len) :
              /\ pg_indices' = indices
              /\ pg_constructed' = pg_constructed \o
                    <<whole,
                      ClassDataset(PgSourceDir, Given(Slice(indices, val_size, len))),
                      ClassDataset(PgSourceDir, Given(Slice(indices, 0, val_size)))>>
    /\ pg_pc' = "target"
    /\ UNCHANGED <<pc, cfg_vars, sampler_vars, cap_vars, G_vars, idx_vars, pair_cnt,
                   view_vars, ret, es_vars, cd_vars, pg_fn, conf, pg_sampler, pg_idxs,
                   pg_train, pg_val>>

\* the target directory scanned, sampler = EvenSampler(target, conf.k),
\* idxs = [i for i in sampler], and the target scanned again over idxs
PgTargetSample ==
    /\ pg_pc = "target"
    /\ LET whole == ClassDataset(PgTargetDir, NoSubset)
           sampler == EvenSampler(whole.dataset, conf.k)
       IN  \E b \in ShuffleCut(sampler) :
              /\ pg_sampler' = [sampler EXCEPT !.class_idxs = b]
              /\ pg_idxs' = ListOf(ZippedIdxs(b, sampler.num_classes))
              /\ pg_constructed' = pg_constructed \o
                    <<whole, ClassDataset(PgTargetDir, Given(pg_idxs'))>>
    /\ pg_pc' = "split"
    /\ UNCHANGED <<pc, cfg_vars, sampler_vars, cap_vars, G_vars, idx_vars, pair_cnt,
                   view_vars, ret, es_vars, cd_vars, pg_fn, conf, pg_indices, pg_train, pg_val>>

\* a quarter of the shots, as in a 75-25 split
ValKQuarter == conf.k \div 4

\* val_k = conf.k // 3
ValK == conf.k \div 3

\* the source parts as the final pair datasets receive them
PgSourceTrain ==
    ClassificationDataset(PgSourceDir,
        Given(Slice(pg_indices, Len(pg_indices) \div 3, Len(pg_indices))), TRUE)

PgSourceVal ==
    ClassificationDataset(PgSourceDir,
        Given(Slice(pg_indices, 0, Len(pg_indices) \div 3)), TRUE)

\* idxs[sampler.num_classes * val_k:] and idxs[:sampler.num_classes * val_k]
PgTargetTrain ==
    ClassificationDataset(PgTargetDir,
        Given(Slice(pg_idxs, pg_sampler.num_classes * ValK, Len(pg_idxs))), TRUE)

PgTargetVal ==
    ClassificationDataset(PgTargetDir,
        Given(Slice(pg_idxs, 0, pg_sampler.num_classes * ValK)), TRUE)

\* the target scanned over the two parts of idxs; pairs_get_datasets_c also
\* scans it over the flattened remain_class_idxs, as its val_dataset
PgTargetSplit ==
    /\ pg_pc = "split"
    /\ pg_constructed' = pg_constructed \o
          <<[cls |-> "ClassificationDataset", dataset |-> PgTargetTrain],
            [cls |-> "ClassificationDataset", dataset |-> PgTargetVal]>>
          \o (IF PgAdv
              THEN <<ClassDataset(PgTargetDir, Given(Flatten(pg_sampler.remain_class_idxs)))>>
              ELSE << >>)
    /\ pg_pc' = "pairs"
    /\ UNCHANGED <<pc, cfg_vars, sampler_vars, cap_vars, G_vars, idx_vars, pair_cnt,
                   view_vars, ret, es_vars, cd_vars, pg_fn, conf, pg_indices, pg_sampler,
                   pg_idxs, pg_train, pg_val>>

\* the final pair datasets, from the datasets of the two splits
PgFinalPairs ==
    /\ pg_pc = "pairs"
    /\ pg_constructed' = pg_constructed \o
          <<PairsDataset(PgSourceTrain, PgTargetTrain, conf.k - ValK, None, PgAdv)>>
          \o (IF PgAdv
              THEN << >>
              ELSE <<PairsDataset(PgSourceVal, PgTargetVal, ValK, None, FALSE)>>)
    /\ pg_pc' = "returned"
    /\ UNCHANGED <<pc, cfg_vars, sampler_vars, cap_vars, G_vars, idx_vars, pair_cnt,
                   view_vars, ret, es_vars, cd_vars, pg_fn, conf, pg_indices, pg_sampler,
                   pg_idxs, pg_train, pg_val>>

NextPairsGet ==
    \/ PgTrainPairs
    \/ OpenPaths
    \/ Samplers
    \/ Capacities
    \/ Budget
    \/ IterSource
    \/ IterTarget
    \/ DrawG1
    \/ DrawG2
    \/ DrawG3
    \/ DrawG4
    \/ Finish
    \/ PgConstrainedTrain
    \/ PgConstrainedVal
    \/ PgConstrainedReturn
    \/ PgAssert
    \/ PgSourceSplit
    \/ PgTargetSample
    \/ PgTargetSplit
    \/ PgFinalPairs

SpecPairsGet == InitPairsGet /\ [][NextPairsGet]_vars


(***************************************************************************)
(* Vocabulary of the properties: class counts taken from the dataset       *)
(* itself, not from the sampler.                                           *)
(***************************************************************************)
\* the classes that occur in the served part of a dataset
ClassesOf(dataset) == Elems(SubsetLabels(dataset))

\* every class id in [0, num_classes) has at least one sample
EveryClassPresent(dataset) ==
    ClassesOf(dataset) = 0..(Cardinality(ClassesOf(dataset)) - 1)

\* the served positions that hold class c
PositionsOf(dataset, c) ==
    {i \in 0..(Len(dataset.subset) - 1) : At(SubsetLabels(dataset), i) = c}

CountOf(dataset, c) == Cardinality(PositionsOf(dataset, c))

SmallestClass(dataset) ==
    CHOOSE n \in {CountOf(dataset, c) : c \in ClassesOf(dataset)} :
        \A c \in ClassesOf(dataset) : n <= CountOf(dataset, c)

\* the class of a position emitted by a sampler over dataset
ClassAt(dataset, i) == At(SubsetLabels(dataset), i)

\* the first s positions of class c in subset order
FirstOf(dataset, c, s) ==
    {i \in PositionsOf(dataset, c) :
        Cardinality({j \in PositionsOf(dataset, c) : j < i}) < s}

Ascending(q) == \A a, b \in 1..Len(q) : a < b => q[a] < q[b]

(***************************************************************************)
(* C2.  An EvenSampler built without shot over a dataset in which every    *)
(* class id in [0, num_classes) has a sample emits, in one iteration,      *)
(* exactly num_classes * min(bucket sizes) indices; every aligned block of *)
(* num_classes emitted indices holds exactly one index of each class, and  *)
(* the class order is the same in every block.                             *)
(***************************************************************************)
C2_Case ==
    /\ es_pc = "built"
    /\ es_iters > 0
    /\ es_shot = -1
    /\ EveryClassPresent(es_dataset)

C2_BalancedBlocks ==
    C2_Case =>
        LET K == Cardinality(ClassesOf(es_dataset))
            blocks == Len(es_out) \div K
            cls(b, slot) == ClassAt(es_dataset, At(es_out, b * K + slot))
        IN  /\ Len(es_out) = K * SmallestClass(es_dataset)
            /\ \A b \in 0..(blocks - 1) :
                  /\ {cls(b, slot) : slot \in 0..(K - 1)} = ClassesOf(es_dataset)
                  /\ \A slot \in 0..(K - 1) : cls(b, slot) = cls(0, slot)

\* two classes of 3 and 2 samples: length 4 as 2 blocks
C2_Witness ==
    /\ C2_Case
    /\ CountOf(es_dataset, 0) = 3
    /\ CountOf(es_dataset, 1) = 2
    /\ Len(es_out) = 4
    /\ es_iters = 2

(***************************************************************************)
(* C10.  With shot = s, 0 < s <= smallest class count, the bucket of every *)
(* class is the first s indices of that class in subset order, chosen at   *)
(* construction before any shuffle, and remain_class_idxs of class c holds *)
(* exactly the other count[c] - s indices of that class.                   *)
(***************************************************************************)
C10_Case ==
    /\ es_pc = "built"
    /\ es_shot > 0
    /\ EveryClassPresent(es_dataset)
    /\ es_shot <= SmallestClass(es_dataset)

C10_ShotTruncation ==
    C10_Case =>
        \A c \in ClassesOf(es_dataset) :
            /\ Elems(es.class_idxs[c + 1]) = FirstOf(es_dataset, c, es_shot)
            /\ Len(es.class_idxs[c + 1]) = es_shot
            /\ es_iters = 0 => Ascending(es.class_idxs[c + 1])
            /\ Elems(es.remain_class_idxs[c + 1])
                  = PositionsOf(es_dataset, c) \ FirstOf(es_dataset, c, es_shot)
            /\ Len(es.remain_class_idxs[c + 1]) = CountOf(es_dataset, c) - es_shot
            /\ Ascending(es.remain_class_idxs[c + 1])

\* a class of three samples cut to its first two, one left over, iterated
C10_Witness ==
    /\ C10_Case
    /\ es_shot = 2
    /\ \E c \in ClassesOf(es_dataset) :
          /\ CountOf(es_dataset, c) = 3
          /\ Len(es.remain_class_idxs[c + 1]) = 1
    /\ es_iters = 1


(***************************************************************************)
(* Vocabulary of the pair dataset properties.                              *)
(***************************************************************************)
\* source and target have the same classes, none of them empty
SameClasses ==
    /\ DatasetsGiven \/ pc \notin {"new", "AssertionError", "KeyError"}
    /\ EveryClassPresent(source_dataset)
    /\ EveryClassPresent(target_dataset)
    /\ ClassesOf(source_dataset) = ClassesOf(target_dataset)

Constructed == pc = "ready"

NoSubsetGiven == subset_arg = None

\* the capacities of G1..G4 as the constructor computes them
Caps == <<CapG1(s_sampler), CapG2(s_sampler, t_sampler),
          CapG3(s_sampler), CapG4(s_sampler, t_sampler)>>

GroupPaths == <<G1_img_paths, G2_img_paths, G3_img_paths, G4_img_paths>>

GroupLabels == <<G1_labels, G2_labels, G3_labels, G4_labels>>

\* the class a stored path belongs to in its own dataset
TrueLabel(path) ==
    IF path[1] = "S" THEN At(source_dataset.labels, path[2])
    ELSE At(target_dataset.labels, path[2])

\* the pairs of group g, each as [a, b: paths; pair_label; label_a; label_b]
StoredPairs(g) ==
    {[a |-> GroupPaths[g][k][1], b |-> GroupPaths[g][k][2],
      pair_label |-> GroupLabels[g][k][1],
      label_a |-> GroupLabels[g][k][2][1], label_b |-> GroupLabels[g][k][2][2]] :
        k \in 1..Len(GroupLabels[g])}

\* per-class sample counts of the two domains, the target's after the shot
SourceCount(c) == CountOf(source_dataset, c)

TargetCount(c) ==
    IF shot = -1 THEN CountOf(target_dataset, c)
    ELSE Min2(CountOf(target_dataset, c), shot)

AllClasses == ClassesOf(source_dataset) \cup ClassesOf(target_dataset)

RECURSIVE SumOver(_, _)
SumOver(S, f) ==
    IF S = {} THEN 0
    ELSE LET x == CHOOSE y \in S : TRUE IN f[x] + SumOver(S \ {x}, f)

(***************************************************************************)
(* C1.  After construction with pair_factor >= 1, min_pairs equals         *)
(* floor(min(G1..G4 capacities) / pair_factor) and every group G1..G4      *)
(* holds exactly min(its capacity, pair_factor * min_pairs) pairs, hence   *)
(* no more than its capacity; G4, whose loop tests the G2 counter, too.    *)
(***************************************************************************)
C1_GroupSizes ==
    Constructed =>
        /\ min_pairs = MinSeq(Caps) \div pair_factor
        /\ \A g \in 1..4 :
              /\ Len(GroupPaths[g]) = Min2(Caps[g], pair_factor * min_pairs)
              /\ Len(GroupPaths[g]) <= Caps[g]
              /\ Len(GroupLabels[g]) = Len(GroupPaths[g])

\* G2 and G4 capacities differ and G4 has been drawn
C1_Witness ==
    /\ Constructed
    /\ Caps[2] # Caps[4]
    /\ Len(G4_img_paths) = 1
    /\ Len(G1_img_paths) = 1

(***************************************************************************)
(* C3.  When source and target have the same classes, none empty, every    *)
(* pair stored in G1 (SS-same-class) or G2 (ST-same-class) has             *)
(* label_a = label_b.                                                      *)
(***************************************************************************)
C3_SameClassPairs ==
    SameClasses =>
        \A g \in {1, 2} : \A p \in StoredPairs(g) :
            /\ p.label_a = p.label_b
            /\ TrueLabel(p.a) = TrueLabel(p.b)

\* a G2 pair whose target sample was read from the second partition
C3_Witness ==
    /\ SameClasses
    /\ Constructed
    /\ G1_labels # << >>
    /\ \E k \in 1..Len(G2_img_paths) :
          \E pos \in t_sampler.num_classes..(Len(t_sampler_idxs) - 1) :
              G2_img_paths[k][2]
                  = At(target_dataset.imgs, SampleIdx(target_dataset, t_sampler_idxs, pos))

(***************************************************************************)
(* C4.  When source and target have the same classes, none empty, every    *)
(* pair stored in G3 (SS-diff-class) or G4 (ST-diff-class) has             *)
(* label_a # label_b: a same-class pick is never stored there.             *)
(***************************************************************************)
C4_DiffClassPairs ==
    SameClasses =>
        \A g \in {3, 4} : \A p \in StoredPairs(g) :
            /\ p.label_a # p.label_b
            /\ TrueLabel(p.a) # TrueLabel(p.b)

\* a G4 pair whose target sample was read from the second partition
C4_Witness ==
    /\ SameClasses
    /\ Constructed
    /\ G3_labels # << >>
    /\ \E k \in 1..Len(G4_img_paths) :
          \E pos \in t_sampler.num_classes..(Len(t_sampler_idxs) - 1) :
              G4_img_paths[k][2]
                  = At(target_dataset.imgs, SampleIdx(target_dataset, t_sampler_idxs, pos))

(***************************************************************************)
(* C5.  With the default subset and min_pairs > 0, get(i) resolves         *)
(* group = i // min_pairs (clamped to the last served group) and           *)
(* offset = i % min_pairs; for i in [0, length()) that is a stored pair,   *)
(* and different flat indices resolve to different (group, offset).        *)
(***************************************************************************)
C5_Case ==
    /\ Constructed
    /\ NoSubsetGiven
    /\ min_pairs > 0

C5_FlatIndex ==
    C5_Case =>
        \A i \in 0..(Length - 1) :
            LET r == GetItem(i)
            IN  /\ r.kind = "sample"
                /\ r.group = Min2(i \div min_pairs, ServedGroups - 1)
                /\ r.sub_idx = i % min_pairs
                /\ r.group < Len(group_imgs)
                /\ r.sub_idx < Len(group_imgs[r.group + 1])
                /\ \A j \in 0..(Length - 1) :
                      j # i => <<GetItem(j).group, GetItem(j).sub_idx>> # <<r.group, r.sub_idx>>

\* four groups of three pairs behind twelve flat indices
C5_Witness ==
    /\ C5_Case
    /\ min_pairs = 3
    /\ Length = 12

(***************************************************************************)
(* C6.  Without a caller-supplied subset, length() equals the sum of the   *)
(* sizes of the served groups, for every pair_factor >= 1.                 *)
(***************************************************************************)
C6_LengthIsSumOfGroups ==
    (Constructed /\ NoSubsetGiven) =>
        Length = SumSeq([g \in 1..Len(group_imgs) |-> Len(group_imgs[g])])

(***************************************************************************)
(* C7.  The capacities computed at construction are                        *)
(*   G1 = sum over classes c of C(source_count[c], 2),                     *)
(*   G2 = sum over c of source_count[c] * target_count[c],                 *)
(*   G3 = C(number of source samples, 2),                                  *)
(*   G4 = sum over class pairs c # c' of source_count[c] * target_count[c']*)
(* with target_count taken after the shot truncation; source 2 x 20 and    *)
(* target 2 x 3 with shot 3 give G1 = 380, G2 = 120, G3 = 780.             *)
(***************************************************************************)
C7_Case ==
    /\ pc = "capacities"
    /\ EveryClassPresent(source_dataset)
    /\ EveryClassPresent(target_dataset)

C7_ExampleSource == EvenSampler(WholeSet("S", [k \in 1..40 |-> IF k <= 20 THEN 0 ELSE 1]), -1)

C7_ExampleTarget == EvenSampler(WholeSet("T", <<0, 0, 0, 1, 1, 1>>), 3)

C8_Case ==
    /\ Constructed
    /\ adv_stage
    /\ NoSubsetGiven

C8_Adversarial ==
    C8_Case =>
        /\ group_imgs = <<G2_img_paths, G4_img_paths>>
        /\ group_labels = <<G2_labels, G4_labels>>
        /\ Length = 2 * min_pairs
        /\ \A i \in 0..(Length - 1) :
              LET r == GetItem(i)
              IN  /\ r.kind = "sample"
                  /\ r.pair_label \in {0, 2}
                  /\ r.img1[1] = "S"
                  /\ r.img2[1] = "T"
                  /\ r.group = 0 => (r.pair_label = 0 /\ r.label_a = r.label_b)
                  /\ r.group = 1 => (r.pair_label = 2 /\ r.label_a # r.label_b)

\* two served groups of three pairs
C8_Witness ==
    /\ C8_Case
    /\ min_pairs = 3
    /\ Length = 6

(***************************************************************************)
(* C9.  Without adv_stage every stored pair's pair_label is its group's    *)
(* constant (G1 0, G2 1, G3 2, G4 3); with the default subset get(i)       *)
(* returns pair_label = i // min_pairs for every i in [0, length()), and   *)
(* each of the four pair labels is served by exactly min_pairs indices.    *)
(***************************************************************************)
C9_PairLabels ==
    ~adv_stage =>
        /\ \A g \in 1..4 : \A p \in StoredPairs(g) : p.pair_label = g - 1
        /\ (Constructed /\ NoSubsetGiven) =>
              /\ \A i \in 0..(Length - 1) :
                    /\ GetItem(i).kind = "sample"
                    /\ GetItem(i).pair_label = i \div min_pairs
              /\ \A l \in 0..3 :
                    Cardinality({i \in 0..(Length - 1) : GetItem(i).pair_label = l})
                        = min_pairs

\* four groups of three pairs served, three flat indices per pair label
C9_Witness ==
    /\ ~adv_stage
    /\ Constructed
    /\ NoSubsetGiven
    /\ min_pairs = 3
    /\ Length = 12

(***************************************************************************)
(* C11.  Within one iteration of an EvenSampler no index is emitted twice, *)
(* the index emitted in slot j belongs to class j mod num_classes, and     *)
(* each class contributes exactly min_len indices.                         *)
(***************************************************************************)
C11_Case ==
    /\ es_pc = "built"
    /\ es_iters > 0

C11_OneIteration ==
    C11_Case =>
        LET K == es.num_classes
        IN  /\ \A a, b \in 1..Len(es_out) : a # b => es_out[a] # es_out[b]
            /\ \A j \in 0..(Len(es_out) - 1) :
                  /\ InRange(es_dataset.subset, At(es_out, j))
                  /\ ClassAt(es_dataset, At(es_out, j)) = j % K
            /\ \A c \in 0..(K - 1) :
                  Cardinality({j \in 0..(Len(es_out) - 1) :
                                  ClassAt(es_dataset, At(es_out, j)) = c}) = es.min_len

\* classes of 3 and 2 samples: two indices of each, one sample left out
C11_Witness ==
    /\ C11_Case
    /\ es.num_classes = 2
    /\ es.min_len = 2
    /\ CountOf(es_dataset, 0) = 3
    /\ Len(es_out) = 4

(***************************************************************************)
(* C12.  Every iteration of one EvenSampler emits num_classes * min_len    *)
(* indices, so a later iteration emits as many as the one before it,       *)
(* whatever the class sizes and the shot.                                  *)
(***************************************************************************)
C12_SameLength ==
    [][es_iters' > es_iters =>
          /\ Len(es_out') = es.num_classes * es.min_len
          /\ es_iters > 0 => Len(es_out') = Len(es_out)]_vars

\* classes of 3 and 1 samples, iterated twice: one index of each both times
C12_Witness ==
    /\ es_pc = "built"
    /\ es_iters = 2
    /\ es_shot = -1
    /\ CountOf(es_dataset, 0) = 3
    /\ CountOf(es_dataset, 1) = 1
    /\ Len(es_out) = 2

(***************************************************************************)
(* C14.  An EvenSampler is never built over a dataset or subset in which   *)
(* some class id below the largest one has no sample: construction fails   *)
(* instead of returning a sampler.                                         *)
(***************************************************************************)
C14_EmptyClassRejected ==
    ~EveryClassPresent(es_dataset) => es_pc # "built"

(***************************************************************************)
(* C19.  Every iteration starts from the full bucket of every class (all   *)
(* its samples, or its first shot samples), so a sample cut off by one     *)
(* iteration is still available to the next.                               *)
(***************************************************************************)
C19_PostShotBucket(c) ==
    IF es_shot = -1 THEN PositionsOf(es_dataset, c) ELSE FirstOf(es_dataset, c, es_shot)

C19_FullBucketEveryIteration ==
    (es_pc = "built" /\ EveryClassPresent(es_dataset)) =>
        \A c \in ClassesOf(es_dataset) :
            Elems(es.class_idxs[c + 1]) = C19_PostShotBucket(c)

(***************************************************************************)
(* C20.  When every source class id in [0, num_classes) has a sample, the  *)
(* G1 loop terminates: whatever is drawn in a pass, both positions can be  *)
(* read, so no pass is repeated (passes made = pairs stored) and the loop  *)
(* is left after exactly num_G1_pairs passes.                              *)
(***************************************************************************)
C20_Case ==
    /\ pc \in {"G1", "G2", "G3", "G4", "groups", "ready", "crashed"}
    /\ EveryClassPresent(source_dataset)

C20_EveryDrawInRange ==
    /\ RandInt(num_s_partitions) # {}
    /\ \A r1, r2 \in RandInt(num_s_partitions), c \in RandInt(s_sampler.num_classes - 1) :
          /\ CanRead(source_dataset, s_sampler_idxs, SourcePos(r1) + c)
          /\ CanRead(source_dataset, s_sampler_idxs, SourcePos(r2) + c)

C20_G1Terminates ==
    C20_Case =>
        /\ pc = "G1" =>
              /\ C20_EveryDrawInRange
              /\ G1_attempts = pair_cnt
              /\ pair_cnt < num_G1_pairs
        /\ pc \in {"G2", "G3", "G4", "groups", "ready"} =>
              /\ G1_attempts = num_G1_pairs
              /\ Len(G1_labels) = num_G1_pairs
        /\ pc = "crashed" => G1_attempts = Len(G1_labels)

\* three passes gave the three G1 pairs of a source of 3 + 1 samples
C20_Witness ==
    /\ C20_Case
    /\ pc = "ready"
    /\ num_G1_pairs = 3
    /\ G1_attempts = 3
    /\ Len(G1_labels) = 3

(***************************************************************************)
(* C16.  A ClassificationDataset is never built on a root directory that   *)
(* has no subdirectories: construction fails instead of returning an       *)
(* empty dataset.                                                          *)
(***************************************************************************)
C16_NoSubdirsRejected ==
    (cd_pc # "off" /\ cd_args.img_dir_path.dirs = << >>) => cd_pc # "built"

(***************************************************************************)
(* C17.  In every index built by ClassificationDataset the class-name map  *)
(* has one entry per immediate subdirectory of the root, the ids are       *)
(* 0, 1, ... in listing order, and the label of every indexed sample is    *)
(* the id that the map assigns to the name of the directory holding the    *)
(* file.                                                                   *)
(***************************************************************************)
\* every directory of a tree of depth two, with the path it is found at
C17_Directories(root) ==
    LET at(parent, d) == [dirpath |-> Append(parent, d.name), name |-> d.name,
                          files |-> d.files]
    IN  {at(<< >>, root)}
        \cup {at(<<root.name>>, root.dirs[k]) : k \in 1..Len(root.dirs)}
        \cup UNION {{at(<<root.name, root.dirs[k].name>>, root.dirs[k].dirs[j]) :
                        j \in 1..Len(root.dirs[k].dirs)} : k \in 1..Len(root.dirs)}

C18_Whole == ClassificationDataset(cd_args.img_dir_path, NoSubset, TRUE)

C18_SubsetView ==
    cd_pc = "built" =>
        /\ cd_args.subset # NoSubset =>
              /\ CdLength(cd) = Len(cd_args.subset[1])
              /\ cd_ret.kind = "sample" =>
                    LET j == At(cd_args.subset[1], cd_ret.arg)
                    IN  /\ InRange(C18_Whole.imgs, j)
                        /\ cd_ret.label = At(C18_Whole.labels, j)
                        /\ cd_ret.img = At(C18_Whole.imgs, j)
                        /\ cd_args.get_path => cd_ret.path = At(C18_Whole.imgs, j)
        /\ cd_args.subset = NoSubset =>
              /\ CdLength(cd) = Len(C18_Whole.imgs)
              /\ cd.subset = Range0(Len(C18_Whole.imgs))
              /\ cd_ret.kind = "sample" =>
                    /\ cd_ret.label = At(C18_Whole.labels, cd_ret.arg)
                    /\ cd_ret.img = At(C18_Whole.imgs, cd_ret.arg)

\* through subset [1, 0], dataset[0] is record 1: the first file of the
\* second class
C18_Witness ==
    /\ cd_pc = "built"
    /\ cd_args.subset = Given(<<1, 0>>)
    /\ cd_args.get_path
    /\ cd_ret.kind = "sample"
    /\ cd_ret.arg = 0
    /\ cd_ret.label = 1
    /\ cd.labels[1] = 0
    /\ cd_ret.path = cd.imgs[2]

(***************************************************************************)
(* C15.  A DomainAdaptationPairDataset built from two directory paths:     *)
(* when the sets of class names differ, construction fails before a        *)
(* sampler is created or a pair is drawn; when the sets are equal, the     *)
(* class check does not fail.                                              *)
(***************************************************************************)
C15_SourceNames == Elems(ImgClasses(source_img_dir_path))

C15_TargetNames == Elems(ImgClasses(target_img_dir_path))

\* control has not gone past the class check
C15_NothingBuilt ==
    /\ pc \in {"new", "AssertionError"}
    /\ s_sampler = None
    /\ t_sampler = None
    /\ Len(G1_labels) + Len(G2_labels) + Len(G3_labels) + Len(G4_labels) = 0

C13_Case ==
    /\ pg_pc # "off"
    /\ ~conf.constrained_validation

C13_ThreeFailsFirst ==
    (C13_Case /\ conf.k = 3) =>
        /\ pg_pc \in {"start", "AssertionError"}
        /\ Len(pg_constructed) = 0

(***************************************************************************)
(* C13, amended.  With constrained_validation = False the two functions    *)
(* fail with an assertion when k < 3 (k = 2, say) and pass the assertion   *)
(* when k >= 3 (k = 3 included).  The failure comes after the first pair   *)
(* dataset has been constructed from the two paths and before any          *)
(* classification dataset or further pair dataset is constructed.          *)
(***************************************************************************)
C13_SmallKFails ==
    C13_Case =>
        /\ conf.k < 3 =>
              /\ pg_pc \in {"start", "assert", "AssertionError"}
              /\ pg_pc = "AssertionError" =>
                    /\ Len(pg_constructed) = 1
                    /\ pg_constructed[1].cls = "DomainAdaptationPairDataset"
        /\ conf.k >= 3 => pg_pc # "AssertionError"
        /\ pg_pc = "start" <=> Len(pg_constructed) = 0

\* k = 2: the assertion has failed, with one pair dataset constructed
C13_Witness ==
    /\ C13_Case
    /\ conf.k = 2
    /\ pg_pc = "AssertionError"
    /\ Len(pg_constructed) = 1

(***************************************************************************)
(* C22.  After construction the length of every pair group equals the      *)
(* shared budget min_pairs, or the group's capacity when the capacity is   *)
(* smaller than the budget, for every pair_factor >= 1.                    *)
(***************************************************************************)
C22_GroupLengthIsBudget ==
    Constructed =>
        \A g \in 1..4 :
            Len(GroupPaths[g]) = IF Caps[g] < min_pairs THEN Caps[g] ELSE min_pairs

C24_G1PairsDistinct ==
    \A k \in 1..Len(G1_img_paths) :
        /\ G1_img_paths[k][1][1] = "S"
        /\ G1_img_paths[k][2][1] = "S"
        /\ G1_img_paths[k][1] # G1_img_paths[k][2]

(***************************************************************************)
(* C25.  In constrained_validation mode the training dataset and the       *)
(* validation dataset that pairs_get_datasets and pairs_get_datasets_c     *)
(* return hold the same drawn pairs as the dataset whose length made the   *)
(* split: in all three constructions the same pair is stored at every      *)
(* position of every group, so the disjoint flat indices of the two        *)
(* subsets never serve one pair for training and for validation.           *)
(***************************************************************************)
C25_SamePairs(a, b) ==
    /\ a.group_imgs = b.group_imgs
    /\ a.group_labels = b.group_labels

C25_SameDrawInAllThree ==
    (pg_pc # "off" /\ conf.constrained_validation) =>
        /\ (pg_pc = "train_subset" /\ pc = "ready") => C25_SamePairs(PairsObject, pg_train[1])
        /\ pg_pc = "returned" => C25_SamePairs(pg_val[1], pg_train[1])

(***************************************************************************)
(* C26.  With the default subset and any pair_factor >= 1, every pair      *)
(* stored in a served group can be reached: for each served group g and    *)
(* each offset o below the length of group g, some flat index i in         *)
(* [0, length()) makes get(i) resolve to (g, o).                           *)
(***************************************************************************)
C26_EveryPairReachable ==
    (Constructed /\ NoSubsetGiven) =>
        \A g \in 1..Len(group_imgs) :
            \A o \in 0..(Len(group_imgs[g]) - 1) :
                \E i \in 0..(Length - 1) :
                    /\ GetItem(i).kind = "sample"
                    /\ GetItem(i).group = g - 1
                    /\ GetItem(i).sub_idx = o

(***************************************************************************)
(* C27.  On the non-constrained path of pairs_get_datasets, with k >= 3    *)
(* and at least k samples in every target class, the target training       *)
(* subset and the target validation subset are disjoint sets of original   *)
(* indices, the validation subset holds exactly k // 3 (at least one)      *)
(* samples of every class, the training subset exactly k - k // 3 of every *)
(* class, and every sample in either is among the first k of its class.    *)
(***************************************************************************)
\* the target as scanned, and the subsets of the two target datasets that
\* the final pair datasets are built from
C27_Target == pg_constructed[5].dataset

C27_TrainSubset == pg_constructed[7].dataset.subset

C27_ValSubset == pg_constructed[8].dataset.subset

C27_Case ==
    /\ pg_fn = "pairs_get_datasets"
    /\ pg_pc \in {"pairs", "returned"}
    /\ ~conf.constrained_validation
    /\ conf.k >= 3
    /\ \A c \in ClassesOf(C27_Target) : CountOf(C27_Target, c) >= conf.k

C27_CountIn(sub, c) ==
    Cardinality({j \in 1..Len(sub) : At(C27_Target.labels, sub[j]) = c})

C27_TargetSplit ==
    C27_Case =>
        /\ Elems(C27_TrainSubset) \cap Elems(C27_ValSubset) = {}
        /\ Cardinality(Elems(C27_TrainSubset)) = Len(C27_TrainSubset)
        /\ Cardinality(Elems(C27_ValSubset)) = Len(C27_ValSubset)
        /\ conf.k \div 3 >= 1
        /\ \A c \in ClassesOf(C27_Target) :
              /\ C27_CountIn(C27_ValSubset, c) = conf.k \div 3
              /\ C27_CountIn(C27_TrainSubset, c) = conf.k - (conf.k \div 3)
              /\ \A x \in Elems(C27_TrainSubset) \cup Elems(C27_ValSubset) :
                    At(C27_Target.labels, x) = c => x \in FirstOf(C27_Target, c, conf.k)

\* k = 3 over target classes of 4 and 3 images: one validation sample and
\* two training samples of each class, the fourth image of the first class
\* in neither
C27_Witness ==
    /\ C27_Case
    /\ conf.k = 3
    /\ CountOf(C27_Target, 0) = 4
    /\ Len(C27_ValSubset) = 2
    /\ Len(C27_TrainSubset) = 4
    /\ pg_pc = "returned"

(***************************************************************************)
(* C28.  len(sampler) of an EvenSampler equals the number of indices that  *)
(* one iteration of the sampler emits, num_classes * min_len, whatever the *)
(* class sizes and the shot.                                               *)
(***************************************************************************)
C28_LenIsEmittedCount ==
    (es_pc = "built" /\ es_iters > 0) =>
        /\ SamplerLen(es) = Len(es_out)
        /\ SamplerLen(es) = es.num_classes * es.min_len

(***************************************************************************)
(* C29.  After construction no get() or length() call changes the group    *)
(* contents, the group order, min_pairs (the shared budget) or the subset, *)
(* so that get(i) resolves to the same stored (path_a, path_b, pair_label, *)
(* label_a, label_b) on every repeated call.                               *)
(***************************************************************************)
C29_ReadsChangeNothing ==
    [][pc = "ready" =>
          /\ UNCHANGED <<group_imgs, group_labels, min_pairs, subset>>
          /\ UNCHANGED <<G1_img_paths, G1_labels, G2_img_paths, G2_labels,
                         G3_img_paths, G3_labels, G4_img_paths, G4_labels>>
          /\ Len(subset') = Length
          /\ ret'.kind = "item" => ret'.item = GetItem(ret'.arg)
          /\ (ret.kind = "item" /\ ret'.kind = "item" /\ ret'.arg = ret.arg)
                => ret'.item = ret.item]_vars

\* the third pair of the second served group has been read
C29_Witness ==
    /\ pc = "ready"
    /\ min_pairs = 3
    /\ Length = 6
    /\ ret.kind = "item"
    /\ ret.arg = 5
    /\ ret.item.kind = "sample"
    /\ ret.item.group = 1
    /\ ret.item.sub_idx = 2

(***************************************************************************)
(* C30.  Every file under a class directory, at any depth (the files of    *)
(* nested directories too), is indexed by ClassificationDataset as a       *)
(* sample of that top-level class and carries the id of that class.        *)
(***************************************************************************)
\* the files found under the class directory d of root, nested ones too
C30_FilesUnder(root, d) ==
    {<<root.name, d.name, d.files[j]>> : j \in 1..Len(d.files)}
    \cup UNION {{<<root.name, d.name, d.dirs[n].name, d.dirs[n].files[j]>> :
                    j \in 1..Len(d.dirs[n].files)} : n \in 1..Len(d.dirs)}

C30_NestedFilesIndexed ==
    cd_pc \in {"built", "KeyError"} =>
        /\ cd_pc = "built"
        /\ \A k \in 1..Len(cd_args.img_dir_path.dirs) :
              \A f \in C30_FilesUnder(cd_args.img_dir_path, cd_args.img_dir_path.dirs[k]) :
                  \E i \in 1..Len(cd.imgs) :
                      /\ cd.imgs[i] = f
                      /\ cd.labels[i] = k - 1


====
